---- MODULE Spec2Model ----
(***************************************************************************)
(* BME280 & DS18B20 logger (src/src_python/main.py).                       *)
(*                                                                         *)
(* Two threads share the Reading record `state`, the chart buffers and the *)
(* FileLogger: the acquisition worker, which runs DAQ_function once per    *)
(* tick, and the Qt main thread, which runs the slots update_GUI,          *)
(* process_qpbt_record, process_qpbt_clear_chart, update_chart,            *)
(* notify_connection_lost and about_to_quit one at a time.                 *)
(*                                                                         *)
(* DAQ_function is split at its accesses to shared objects, so that the    *)
(* main thread's steps interleave with it the way the interpreter lets     *)
(* them.  FileLogger (DvG_pyqt_FileLogger), the QDeviceIO worker, the      *)
(* Arduino link and the chart curves are not part of main.py: they are     *)
(* modelled from the specification's description of them.                  *)
(***************************************************************************)
EXTENDS Integers, Sequences, FiniteSets, TLC

\* ------------------------------------------------------------------ bounds
\* Successful ticks the main specification allows (the perf_counter clock).
MaxTime == 3
\* Successful ticks the chart specification allows: more than the capacity.
MaxChartTime == 62
\* Queued update_GUI invocations that are told apart.
MaxPending == 1
\* Successful ticks the presentation specification allows.
MaxGUITime == 2

\* ------------------------------------------------------- program constants
DAQ_INTERVAL_MS == 1000
CHART_HISTORY_TIME == 60
\* Mutant: one failure more is tolerated.
critical_not_alive_count_plus_one == 3 + 1
\* create_worker_DAQ(critical_not_alive_count = 3)
critical_not_alive_count == 3

\* ----------------------------------------------------------------- numbers
\* A float is a normalised fraction [n, d] with d > 0; NaN is [n |-> 0, d |-> 0].
RECURSIVE GCD(_, _)
GCD(a, b) == IF b = 0 THEN a ELSE GCD(b, a % b)

Abs(a) == IF a < 0 THEN -a ELSE a

NaN == [n |-> 0, d |-> 0]

IsNaN(x) == x.d = 0

Rat(n, d) ==
    LET g == GCD(Abs(n), d)
    IN  [n |-> n \div g, d |-> d \div g]

Num(n) == Rat(n, 1)

\* x / k for a positive integer k (state.time /= 1000, state.bme_pres /= 1e5)
RatDiv(x, k) == IF IsNaN(x) THEN NaN ELSE Rat(x.n, x.d * k)

\* a - b
RatSub(a, b) ==
    IF IsNaN(a) \/ IsNaN(b) THEN NaN ELSE Rat(a.n * b.d - b.n * a.d, a.d * b.d)

\* a / b rounded to the nearest integer, ties to even, for a >= 0 and b > 0
RoundDiv(a, b) ==
    LET q == a \div b
        r == a % b
    IN  IF 2 * r < b THEN q
        ELSE IF 2 * r > b THEN q + 1
        ELSE IF q % 2 = 0 THEN q ELSE q + 1

RECURSIVE Pow10(_)
Pow10(k) == IF k = 0 THEN 1 ELSE 10 * Pow10(k - 1)

\* x * 10^k rounded to an integer, for x >= 0 (the fraction is reduced first)
Scaled(x, k) ==
    LET g == GCD(Pow10(k), x.d)
    IN  RoundDiv(x.n * (Pow10(k) \div g), x.d \div g)

\* "%.<k>f" % x: the text is the number of 10^-k units shown, or "nan"
Fmt(x, k) ==
    IF IsNaN(x) THEN [nan |-> TRUE, dec |-> k, units |-> 0]
    ELSE [nan |-> FALSE, dec |-> k,
          units |-> IF x.n >= 0 THEN Scaled(x, k)
                    ELSE -Scaled([n |-> -x.n, d |-> x.d], k)]

\* ------------------------------------------------------- the device's replies
\* A reply is what the serial link read: io = FALSE is a failed or timed-out
\* read; otherwise toks are the tab-separated tokens, numeric or not.
T(n, d) == [num |-> TRUE, val |-> Rat(n, d)]

Junk == [num |-> FALSE, val |-> NaN]

Reply(toks) == [io |-> TRUE, toks |-> toks]

Valid1 == Reply(<<T(1500, 1), T(20, 1), T(21, 1), T(45, 1), T(101325, 1)>>)

Valid2 == Reply(<<T(2500, 1), T(201, 10), T(211, 10), T(451, 10), T(101326, 1)>>)

IOError == [io |-> FALSE, toks |-> <<>>]

TooShort == Reply(<<T(1500, 1), T(20, 1), T(21, 1), T(45, 1)>>)

TooLong == Reply(<<T(1500, 1), T(20, 1), T(21, 1), T(45, 1), T(101325, 1), T(7, 1)>>)

JunkFirst == Reply(<<Junk, T(20, 1), T(21, 1), T(45, 1), T(101325, 1)>>)

JunkMiddle == Reply(<<T(1500, 1), T(20, 1), Junk, T(45, 1), T(101325, 1)>>)

JunkLast == Reply(<<T(1500, 1), T(20, 1), T(21, 1), T(45, 1), Junk>>)

Responses == {Valid1, Valid2, IOError, TooShort, TooLong, JunkFirst, JunkMiddle, JunkLast}

ChartResponses == {Valid1, IOError}

\* The Reading's fields in the order of the reply's fields.
Fields == <<"time", "ds_temp", "bme_temp", "bme_humi", "bme_pres">>

CurveNames == {"ds_temp", "bme_temp", "bme_humi", "bme_pres"}

VARIABLES
    state,          \* the Reading: State() of main.py
    resp,           \* the reply the link read in the tick under way
    tmp_state,      \* DAQ_function's local: the parsed reply
    daq_pc,         \* where the worker is in its tick
    daq_i,          \* the field the tuple assignment stores next
    clock,          \* the last value time.perf_counter() returned [s]
    curves,         \* the four chart buffers
    file_logger,    \* FileLogger: starting, stopping, is_recording, start_time
    f_log,          \* the log file: is it open, its lines, how often one was opened
    running,        \* the worker's run flag
    not_alive,      \* the worker's tally of consecutive failed ticks
    lost_pending,   \* signal_connection_lost is queued for the main thread
    lost_count,     \* how often signal_connection_lost was emitted
    gui_queue,      \* queued signal_DAQ_updated -> update_GUI invocations
    ui_pc,          \* where the main thread is
    ui_slot,        \* the slot whose stop_running is under way
    gui_i,          \* the read-out update_GUI sets next
    shown,          \* the five read-outs of the window
    checked,        \* the record button's toggle state
    btn_text,       \* the record button's text
    banner,         \* the title shows LOST CONNECTION
    timer_chart,    \* the chart timer is active
    chart_drawn,    \* the samples the last redraw showed
    ard_open,       \* the serial link is open
    committed,      \* history: every Reading a completed poll (or __init__) left
    tick_saw        \* history: the latch flags as they were when the tick under way started

vars == <<state, resp, tmp_state, daq_pc, daq_i, clock, curves, file_logger, f_log,
          running, not_alive, lost_pending, lost_count, gui_queue, ui_pc, ui_slot,
          gui_i, shown, checked, btn_text, banner, timer_chart, chart_drawn,
          ard_open, committed, tick_saw>>

workerVars == <<resp, tmp_state, daq_pc, daq_i, running, not_alive, lost_pending,
                lost_count>>

uiVars == <<ui_pc, ui_slot, gui_i, shown, checked, btn_text, banner, timer_chart,
            chart_drawn, ard_open>>

\* ------------------------------------------------------------------- helpers
Min(a, b) == IF a < b THEN a ELSE b

NaNReading == [f \in {Fields[i] : i \in 1..5} |-> NaN]

\* The decimals update_GUI shows each read-out with ("%.1f", "%.3f").
ShownDecimals(f) == IF f = "bme_pres" THEN 3 ELSE 1

Display(r) == [f \in DOMAIN r |-> Fmt(r[f], ShownDecimals(f))]

\* ------------------------------------------------------------ the device link
\* Arduino.query_ascii_values: (success, floats).  A failed read, an empty
\* reply or a token that is no number gives (False, []).
query_ascii_values(r) ==
    IF r.io /\ Len(r.toks) > 0 /\ \A i \in 1..Len(r.toks) : r.toks[i].num
    THEN [success |-> TRUE, values |-> [i \in 1..Len(r.toks) |-> r.toks[i].val]]
    ELSE [success |-> FALSE, values |-> <<>>]

\* Mutant: the unpacking takes the first five values of a longer reply.
Unpacks_first_five(values) == Len(values) >= 5

\* The tuple assignment of DAQ_function unpacks exactly five values; any
\* other count raises before the first store.
Unpacks(values) == Len(values) = 5

\* ----------------------------------------------------------------- the charts
\* Mutant: the history time is not converted to milliseconds.
num_samples_unscaled == RoundDiv(CHART_HISTORY_TIME, DAQ_INTERVAL_MS)

\* round(CHART_HISTORY_TIME * 1e3 / DAQ_INTERVAL_MS)
num_samples == RoundDiv(CHART_HISTORY_TIME * 1000, DAQ_INTERVAL_MS)

\* HistoryChartCurve.add_new_reading on a ring buffer of `capacity` samples
add_new_reading(buf, capacity, x, y) ==
    LET all == Append(buf, <<x, y>>)
    IN  IF Len(all) > capacity THEN SubSeq(all, Len(all) - capacity + 1, Len(all))
        ELSE all

\* ThreadSafeGraphicsWindow.clear_curves
clear_curves(cs) == [c \in DOMAIN cs |-> <<>>]

CurveOrder == <<"ds_temp", "bme_temp", "bme_humi", "bme_pres">>

\* ------------------------------------------------------------- the FileLogger
HeaderLine == [kind |-> "header", cols |-> <<>>]

\* "%.1f\t%.3f\t%.3f\t%.3f\t%.5f\n" % (elapsed, ds_temp, bme_temp, bme_humi, bme_pres)
DataLine(elapsed, r) ==
    [kind |-> "data",
     cols |-> <<Fmt(elapsed, 1), Fmt(r.ds_temp, 3), Fmt(r.bme_temp, 3),
                Fmt(r.bme_humi, 3), Fmt(r.bme_pres, 5)>>]

\* FileLogger.create_log(start_time, fn_log, mode="w"): opens a new file and
\* starts the session; a no-op returning False while a session is open.
\* Either way the request is consumed.
create_log(fl, f, start_time) ==
    IF fl.is_recording
    THEN [fl |-> [fl EXCEPT !.starting = FALSE], f |-> f, ret |-> FALSE]
    ELSE [fl |-> [fl EXCEPT !.starting = FALSE, !.is_recording = TRUE,
                            !.start_time = start_time],
          f |-> [f EXCEPT !.open = TRUE, !.lines = <<>>, !.opened = @ + 1],
          ret |-> TRUE]

\* FileLogger.write(data): appends to the open file; on a closed handle the
\* write fails and is counted.
write(f, line) ==
    IF f.open THEN [f EXCEPT !.lines = Append(@, line)]
    ELSE [f EXCEPT !.bad_writes = TRUE]

\* FileLogger.close_log(): closes the file if one is open, clears the flags.
close_log(fl, f) ==
    [fl |-> [fl EXCEPT !.starting = FALSE, !.stopping = FALSE, !.is_recording = FALSE],
     f |-> IF fl.is_recording THEN [f EXCEPT !.open = FALSE, !.closes = TRUE] ELSE f]

NoFlags == [starting |-> FALSE, stopping |-> FALSE]

\* ---------------------------------------------------------------------- Init
Init ==
    /\ state = NaNReading
    /\ resp = IOError
    /\ tmp_state = <<>>
    /\ daq_pc = "wait"
    /\ daq_i = 0
    /\ clock = 0
    /\ curves = [c \in CurveNames |-> <<>>]
    /\ file_logger = [starting |-> FALSE, stopping |-> FALSE, is_recording |-> FALSE,
                      start_time |-> NaN]
    /\ f_log = [open |-> FALSE, lines |-> <<>>, opened |-> 0, bad_writes |-> FALSE,
                closes |-> FALSE]
    /\ running = TRUE
    /\ not_alive = 0
    /\ lost_pending = FALSE
    /\ lost_count = 0
    /\ gui_queue = 0
    /\ ui_pc = "loop"
    /\ ui_slot = "none"
    /\ gui_i = 0
    /\ shown = Display(NaNReading)
    /\ checked = FALSE
    /\ btn_text = "start"
    /\ banner = FALSE
    /\ timer_chart = TRUE
    /\ chart_drawn = 0
    /\ ard_open = TRUE
    /\ committed = {NaNReading}
    /\ tick_saw = NoFlags

\* ------------------------------------------------------ the acquisition worker
\* What the worker does with DAQ_function's return value: it keeps the tally
\* of consecutive failures, gives up at critical_not_alive_count, and
\* otherwise signals signal_DAQ_updated.
Finish(success) ==
    LET tally == IF success THEN 0 ELSE not_alive + 1
        lost == tally >= critical_not_alive_count
    IN  /\ not_alive' = tally
        /\ running' = IF lost THEN FALSE ELSE running
        /\ lost_pending' = (lost_pending \/ lost)
        /\ lost_count' = IF lost THEN lost_count + 1 ELSE lost_count
        /\ gui_queue' = IF lost THEN gui_queue ELSE Min(gui_queue + 1, MaxPending)
        /\ daq_pc' = "wait"
        /\ tick_saw' = NoFlags

\* The tick starts (the run flag is checked at its top) and DAQ_function
\* queries the Arduino: ard.query_ascii_values("?", delimiter="\t").
DAQ_query(replies, max_time) ==
    /\ daq_pc = "wait"
    /\ running
    /\ clock < max_time
    /\ \E r \in replies : resp' = r
    /\ daq_pc' = "parse"
    /\ tick_saw' = [starting |-> file_logger.starting, stopping |-> file_logger.stopping]
    /\ UNCHANGED <<state, tmp_state, daq_i, clock, curves, file_logger, f_log, running,
                   not_alive, lost_pending, lost_count, gui_queue, committed>>
    /\ UNCHANGED uiVars

\* `if not (success): return False`, and the unpacking of tmp_state, which
\* raises (except: return False) unless there are five values.
DAQ_parse ==
    /\ daq_pc = "parse"
    /\ LET q == query_ascii_values(resp)
       IN  IF q.success /\ Unpacks(q.values)
           THEN /\ tmp_state' = q.values
                /\ daq_i' = 1
                /\ daq_pc' = "store"
                /\ UNCHANGED <<running, not_alive, lost_pending, lost_count, gui_queue,
                               tick_saw>>
           ELSE /\ Finish(FALSE)
                /\ UNCHANGED <<tmp_state, daq_i>>
    /\ UNCHANGED <<state, resp, clock, curves, file_logger, f_log, committed>>
    /\ UNCHANGED uiVars

\* One store of (state.time, ..., state.bme_pres) = tmp_state.
DAQ_store ==
    /\ daq_pc = "store"
    /\ state' = [state EXCEPT ![Fields[daq_i]] = tmp_state[daq_i]]
    /\ IF daq_i < 5
       THEN daq_i' = daq_i + 1 /\ daq_pc' = "store"
       ELSE daq_i' = 0 /\ daq_pc' = "div_time"
    /\ UNCHANGED <<resp, tmp_state, clock, curves, file_logger, f_log, running,
                   not_alive, lost_pending, lost_count, gui_queue, committed, tick_saw>>
    /\ UNCHANGED uiVars

\* state.time /= 1000
DAQ_div_time ==
    /\ daq_pc = "div_time"
    /\ state' = [state EXCEPT !.time = RatDiv(@, 1000)]
    /\ daq_pc' = "div_pres"
    /\ UNCHANGED <<resp, tmp_state, daq_i, clock, curves, file_logger, f_log, running,
                   not_alive, lost_pending, lost_count, gui_queue, committed, tick_saw>>
    /\ UNCHANGED uiVars

\* Mutant: the pressure is left in the device's unit.
DAQ_div_pres_omitted ==
    /\ daq_pc = "div_pres"
    /\ daq_pc' = "pc_time"
    /\ UNCHANGED <<state, resp, tmp_state, daq_i, clock, curves, file_logger, f_log,
                   running, not_alive, lost_pending, lost_count, gui_queue, committed, tick_saw>>
    /\ UNCHANGED uiVars

\* state.bme_pres /= 1e5
DAQ_div_pres ==
    /\ daq_pc = "div_pres"
    /\ state' = [state EXCEPT !.bme_pres = RatDiv(@, 100000)]
    /\ daq_pc' = "pc_time"
    /\ UNCHANGED <<resp, tmp_state, daq_i, clock, curves, file_logger, f_log, running,
                   not_alive, lost_pending, lost_count, gui_queue, committed, tick_saw>>
    /\ UNCHANGED uiVars

\* use_PC_time: state.time = time.perf_counter()
DAQ_pc_time ==
    /\ daq_pc = "pc_time"
    /\ clock' = clock + 1
    /\ state' = [state EXCEPT !.time = Num(clock')]
    /\ daq_i' = 1
    /\ daq_pc' = "charts"
    /\ UNCHANGED <<resp, tmp_state, curves, file_logger, f_log, running,
                   not_alive, lost_pending, lost_count, gui_queue, committed, tick_saw>>
    /\ UNCHANGED uiVars

\* window.tscurve_<c>.add_new_reading(state.time, state.<c>), one curve a step
DAQ_charts ==
    /\ daq_pc = "charts"
    /\ LET c == CurveOrder[daq_i]
       IN  curves' = [curves EXCEPT
                        ![c] = add_new_reading(@, num_samples, state.time, state[c])]
    /\ IF daq_i < 4
       THEN daq_i' = daq_i + 1 /\ daq_pc' = "charts"
       ELSE daq_i' = 0 /\ daq_pc' = "log_start"
    /\ UNCHANGED <<state, resp, tmp_state, clock, file_logger, f_log, running,
                   not_alive, lost_pending, lost_count, gui_queue, committed, tick_saw>>
    /\ UNCHANGED uiVars

\* Mutant: the header is written whatever create_log returned.
DAQ_log_start_unchecked ==
    /\ daq_pc = "log_start"
    /\ IF file_logger.starting
       THEN LET c == create_log(file_logger, f_log, state.time)
            IN  /\ file_logger' = c.fl
                /\ f_log' = write(c.f, HeaderLine)
                /\ btn_text' = "recording"
       ELSE UNCHANGED <<file_logger, f_log, btn_text>>
    /\ daq_pc' = "log_stop"
    /\ UNCHANGED <<state, resp, tmp_state, daq_i, clock, curves, running,
                   not_alive, lost_pending, lost_count, gui_queue, committed, tick_saw>>
    /\ UNCHANGED <<ui_pc, ui_slot, gui_i, shown, checked, banner, timer_chart,
                   chart_drawn, ard_open>>

\* if file_logger.starting: create_log(state.time, fn_log, mode="w") and, if
\* that succeeded, the button text and the header line
DAQ_log_start ==
    /\ daq_pc = "log_start"
    /\ IF file_logger.starting
       THEN LET c == create_log(file_logger, f_log, state.time)
            IN  /\ file_logger' = c.fl
                /\ f_log' = IF c.ret THEN write(c.f, HeaderLine) ELSE c.f
                /\ btn_text' = IF c.ret THEN "recording" ELSE btn_text
       ELSE UNCHANGED <<file_logger, f_log, btn_text>>
    /\ daq_pc' = "log_stop"
    /\ UNCHANGED <<state, resp, tmp_state, daq_i, clock, curves, running,
                   not_alive, lost_pending, lost_count, gui_queue, committed, tick_saw>>
    /\ UNCHANGED <<ui_pc, ui_slot, gui_i, shown, checked, banner, timer_chart,
                   chart_drawn, ard_open>>

\* Mutant: close_log() is called only while recording.
DAQ_log_stop_guarded ==
    /\ daq_pc = "log_stop"
    /\ IF file_logger.stopping /\ file_logger.is_recording
       THEN LET c == close_log(file_logger, f_log)
            IN  /\ file_logger' = c.fl
                /\ f_log' = c.f
                /\ btn_text' = "start"
       ELSE UNCHANGED <<file_logger, f_log, btn_text>>
    /\ daq_pc' = "log_write"
    /\ UNCHANGED <<state, resp, tmp_state, daq_i, clock, curves, running,
                   not_alive, lost_pending, lost_count, gui_queue, committed, tick_saw>>
    /\ UNCHANGED <<ui_pc, ui_slot, gui_i, shown, checked, banner, timer_chart,
                   chart_drawn, ard_open>>

\* if file_logger.stopping: the button text and close_log()
DAQ_log_stop ==
    /\ daq_pc = "log_stop"
    /\ IF file_logger.stopping
       THEN LET c == close_log(file_logger, f_log)
            IN  /\ file_logger' = c.fl
                /\ f_log' = c.f
                /\ btn_text' = "start"
       ELSE UNCHANGED <<file_logger, f_log, btn_text>>
    /\ daq_pc' = "log_write"
    /\ UNCHANGED <<state, resp, tmp_state, daq_i, clock, curves, running,
                   not_alive, lost_pending, lost_count, gui_queue, committed, tick_saw>>
    /\ UNCHANGED <<ui_pc, ui_slot, gui_i, shown, checked, banner, timer_chart,
                   chart_drawn, ard_open>>

\* Mutant: the line's time is the Reading's time, not the elapsed time.
DAQ_log_write_absolute ==
    /\ daq_pc = "log_write"
    /\ f_log' = IF file_logger.is_recording
                THEN write(f_log, DataLine(state.time, state))
                ELSE f_log
    /\ Finish(TRUE)
    /\ committed' = committed \cup {state}
    /\ UNCHANGED <<state, resp, tmp_state, daq_i, clock, curves, file_logger>>
    /\ UNCHANGED uiVars

\* if file_logger.is_recording: one data line; return True
DAQ_log_write ==
    /\ daq_pc = "log_write"
    /\ f_log' = IF file_logger.is_recording
                THEN write(f_log, DataLine(RatSub(state.time, file_logger.start_time),
                                           state))
                ELSE f_log
    /\ Finish(TRUE)
    /\ committed' = committed \cup {state}
    /\ UNCHANGED <<state, resp, tmp_state, daq_i, clock, curves, file_logger>>
    /\ UNCHANGED uiVars

\* ------------------------------------------------------------ the main thread
\* Mutant: the button sets `starting` whichever way it was toggled.
process_qpbt_record_always_start ==
    /\ ui_pc = "loop"
    /\ checked' = ~checked
    /\ file_logger' = [file_logger EXCEPT !.starting = TRUE]
    /\ UNCHANGED <<state, curves, clock, f_log, gui_queue, committed, tick_saw>>
    /\ UNCHANGED workerVars
    /\ UNCHANGED <<ui_pc, ui_slot, gui_i, shown, btn_text, banner, timer_chart,
                   chart_drawn, ard_open>>

\* Mutant: toggling the button off closes the log file in the main thread.
process_qpbt_record_closes ==
    /\ ui_pc = "loop"
    /\ checked' = ~checked
    /\ IF checked'
       THEN /\ file_logger' = [file_logger EXCEPT !.starting = TRUE]
            /\ f_log' = f_log
       ELSE LET c == close_log(file_logger, f_log)
            IN  file_logger' = c.fl /\ f_log' = c.f
    /\ UNCHANGED <<state, curves, clock, gui_queue, committed, tick_saw>>
    /\ UNCHANGED workerVars
    /\ UNCHANGED <<ui_pc, ui_slot, gui_i, shown, btn_text, banner, timer_chart,
                   chart_drawn, ard_open>>

\* process_qpbt_record: the toggle button was clicked
process_qpbt_record ==
    /\ ui_pc = "loop"
    /\ checked' = ~checked
    /\ file_logger' = IF checked' THEN [file_logger EXCEPT !.starting = TRUE]
                      ELSE [file_logger EXCEPT !.stopping = TRUE]
    /\ UNCHANGED <<state, curves, clock, f_log, gui_queue, committed, tick_saw>>
    /\ UNCHANGED workerVars
    /\ UNCHANGED <<ui_pc, ui_slot, gui_i, shown, btn_text, banner, timer_chart,
                   chart_drawn, ard_open>>

\* process_qpbt_clear_chart: the dialog, and on Yes tsgwin.clear_curves()
process_qpbt_clear_chart ==
    /\ ui_pc = "loop"
    /\ \E reply \in {"Yes", "No"} :
          curves' = IF reply = "Yes" THEN clear_curves(curves) ELSE curves
    /\ UNCHANGED <<state, clock, file_logger, f_log, gui_queue, committed, tick_saw>>
    /\ UNCHANGED workerVars
    /\ UNCHANGED uiVars

\* update_chart, on timer_chart's timeout: tsgwin.update_curves()
update_chart ==
    /\ ui_pc = "loop"
    /\ timer_chart
    /\ chart_drawn' = Len(curves["ds_temp"]) + Len(curves["bme_temp"])
                      + Len(curves["bme_humi"]) + Len(curves["bme_pres"])
    /\ UNCHANGED <<state, curves, clock, file_logger, f_log, gui_queue, committed, tick_saw>>
    /\ UNCHANGED workerVars
    /\ UNCHANGED <<ui_pc, ui_slot, gui_i, shown, checked, btn_text, banner,
                   timer_chart, ard_open>>

\* One read-out of update_GUI: window.qlin_reading_<f>.setText(fmt % state.<f>)
SetText(i) == [shown EXCEPT ![Fields[i]] = Fmt(state[Fields[i]], ShownDecimals(Fields[i]))]

\* update_GUI is dispatched for a queued signal_DAQ_updated and runs up to
\* its first read-out.
update_GUI_begin ==
    /\ ui_pc = "loop"
    /\ gui_queue > 0
    /\ gui_queue' = gui_queue - 1
    /\ ui_pc' = "gui"
    /\ shown' = SetText(1)
    /\ gui_i' = 2
    /\ UNCHANGED <<state, curves, clock, file_logger, f_log, committed, tick_saw>>
    /\ UNCHANGED workerVars
    /\ UNCHANGED <<ui_slot, checked, btn_text, banner, timer_chart, chart_drawn, ard_open>>

\* The next read-out of update_GUI; after the fifth the slot returns.
update_GUI_read ==
    /\ ui_pc = "gui"
    /\ shown' = SetText(gui_i)
    /\ IF gui_i < 5
       THEN gui_i' = gui_i + 1 /\ UNCHANGED ui_pc
       ELSE gui_i' = 0 /\ ui_pc' = "loop"
    /\ UNCHANGED <<state, curves, clock, file_logger, f_log, gui_queue, committed, tick_saw>>
    /\ UNCHANGED workerVars
    /\ UNCHANGED <<ui_slot, checked, btn_text, banner, timer_chart, chart_drawn, ard_open>>

\* notify_connection_lost is dispatched for signal_connection_lost and
\* enters stop_running.
notify_connection_lost ==
    /\ ui_pc = "loop"
    /\ lost_pending
    /\ lost_pending' = FALSE
    /\ ui_slot' = "notify"
    /\ ui_pc' = "events"
    /\ UNCHANGED <<state, curves, clock, file_logger, f_log, gui_queue, committed, tick_saw>>
    /\ UNCHANGED <<resp, tmp_state, daq_pc, daq_i, running, not_alive, lost_count>>
    /\ UNCHANGED <<gui_i, shown, checked, btn_text, banner, timer_chart,
                   chart_drawn, ard_open>>

\* about_to_quit: the window was closed; enters stop_running.
about_to_quit ==
    /\ ui_pc = "loop"
    /\ ui_slot' = "quit"
    /\ ui_pc' = "events"
    /\ UNCHANGED <<state, curves, clock, file_logger, f_log, gui_queue, committed, tick_saw>>
    /\ UNCHANGED workerVars
    /\ UNCHANGED <<gui_i, shown, checked, btn_text, banner, timer_chart,
                   chart_drawn, ard_open>>

\* stop_running: app.processEvents().  A queued notify_connection_lost runs
\* nested, whole: the worker has stopped by then, so its stop_running closes
\* the log and stops the timer at once, and it sets the banner.  (A queued
\* update_GUI it dispatches is one the event loop dispatches before the slot.)
stop_running_events ==
    /\ ui_pc = "events"
    /\ IF lost_pending
       THEN LET c == close_log(file_logger, f_log)
            IN  /\ lost_pending' = FALSE
                /\ file_logger' = c.fl
                /\ f_log' = c.f
                /\ timer_chart' = FALSE
                /\ banner' = TRUE
       ELSE UNCHANGED <<lost_pending, file_logger, f_log, timer_chart, banner>>
    /\ ui_pc' = "quit_daq"
    /\ UNCHANGED <<state, curves, clock, gui_queue, committed, tick_saw>>
    /\ UNCHANGED <<resp, tmp_state, daq_pc, daq_i, running, not_alive, lost_count>>
    /\ UNCHANGED <<ui_slot, gui_i, shown, checked, btn_text, chart_drawn, ard_open>>

\* Mutant: stop_running does not stop the worker.
stop_running_quit_omitted ==
    /\ ui_pc = "quit_daq"
    /\ ui_pc' = "join"
    /\ UNCHANGED <<state, curves, clock, file_logger, f_log, gui_queue, committed, tick_saw>>
    /\ UNCHANGED workerVars
    /\ UNCHANGED <<ui_slot, gui_i, shown, checked, btn_text, banner, timer_chart,
                   chart_drawn, ard_open>>

\* stop_running: qdev_ard.quit() tells the worker to stop ...
stop_running_quit ==
    /\ ui_pc = "quit_daq"
    /\ running' = FALSE
    /\ ui_pc' = "join"
    /\ UNCHANGED <<state, curves, clock, file_logger, f_log, gui_queue, committed, tick_saw>>
    /\ UNCHANGED <<resp, tmp_state, daq_pc, daq_i, not_alive, lost_pending, lost_count>>
    /\ UNCHANGED <<ui_slot, gui_i, shown, checked, btn_text, banner, timer_chart,
                   chart_drawn, ard_open>>

\* ... and returns when the tick under way, if any, has completed.
stop_running_join ==
    /\ ui_pc = "join"
    /\ daq_pc = "wait"
    /\ ui_pc' = "close_log"
    /\ UNCHANGED <<state, curves, clock, file_logger, f_log, gui_queue, committed, tick_saw>>
    /\ UNCHANGED workerVars
    /\ UNCHANGED <<ui_slot, gui_i, shown, checked, btn_text, banner, timer_chart,
                   chart_drawn, ard_open>>

\* stop_running: file_logger.close_log()
stop_running_close_log ==
    /\ ui_pc = "close_log"
    /\ LET c == close_log(file_logger, f_log)
       IN  file_logger' = c.fl /\ f_log' = c.f
    /\ ui_pc' = "timer_stop"
    /\ UNCHANGED <<state, curves, clock, gui_queue, committed, tick_saw>>
    /\ UNCHANGED workerVars
    /\ UNCHANGED <<ui_slot, gui_i, shown, checked, btn_text, banner, timer_chart,
                   chart_drawn, ard_open>>

\* stop_running: timer_chart.stop()
stop_running_timer ==
    /\ ui_pc = "timer_stop"
    /\ timer_chart' = FALSE
    /\ ui_pc' = "stopped"
    /\ UNCHANGED <<state, curves, clock, file_logger, f_log, gui_queue, committed, tick_saw>>
    /\ UNCHANGED workerVars
    /\ UNCHANGED <<ui_slot, gui_i, shown, checked, btn_text, banner, chart_drawn,
                   ard_open>>

\* notify_connection_lost after stop_running: the banner and the dialog;
\* the window stays open.
notify_connection_lost_dialog ==
    /\ ui_pc = "stopped"
    /\ ui_slot = "notify"
    /\ banner' = TRUE
    /\ ui_slot' = "none"
    /\ ui_pc' = "loop"
    /\ UNCHANGED <<state, curves, clock, file_logger, f_log, gui_queue, committed, tick_saw>>
    /\ UNCHANGED workerVars
    /\ UNCHANGED <<gui_i, shown, checked, btn_text, timer_chart, chart_drawn,
                   ard_open>>

\* about_to_quit after stop_running: ard.close(); the application ends.
about_to_quit_close ==
    /\ ui_pc = "stopped"
    /\ ui_slot = "quit"
    /\ ard_open' = FALSE
    /\ ui_pc' = "exited"
    /\ UNCHANGED <<state, curves, clock, file_logger, f_log, gui_queue, committed, tick_saw>>
    /\ UNCHANGED workerVars
    /\ UNCHANGED <<ui_slot, gui_i, shown, checked, btn_text, banner, timer_chart,
                   chart_drawn>>

\* ------------------------------------------------------------ specifications
Query == DAQ_query(Responses, MaxTime)

QueryGUI == DAQ_query(Responses, MaxGUITime)

QueryChart == DAQ_query(ChartResponses, MaxChartTime)

\* The steps of a tick after its query.
DAQ_steps ==
    \/ DAQ_parse
    \/ DAQ_store
    \/ DAQ_div_time
    \/ DAQ_div_pres
    \/ DAQ_pc_time
    \/ DAQ_charts
    \/ DAQ_log_start
    \/ DAQ_log_stop
    \/ DAQ_log_write

stop_running ==
    \/ stop_running_events
    \/ stop_running_quit
    \/ stop_running_join
    \/ stop_running_close_log
    \/ stop_running_timer

\* Acquisition, recording and termination: the worker, the record button,
\* connection loss and quitting.
Next ==
    \/ Query
    \/ DAQ_steps
    \/ process_qpbt_record
    \/ notify_connection_lost
    \/ about_to_quit
    \/ stop_running
    \/ notify_connection_lost_dialog
    \/ about_to_quit_close

Spec == Init /\ [][Next]_vars

\* Presentation: the worker against update_GUI and the chart timer.
NextGUI ==
    \/ QueryGUI
    \/ DAQ_steps
    \/ update_GUI_begin
    \/ update_GUI_read
    \/ update_chart

SpecGUI == Init /\ [][NextGUI]_vars

\* Chart history: the worker against the Clear button, past the capacity.
NextChart ==
    \/ QueryChart
    \/ DAQ_steps
    \/ process_qpbt_clear_chart

SpecChart == Init /\ [][NextChart]_vars

\* ==================================================================== claims
\* What a reply is, read off the reply alone.
Malformed(r) ==
    \/ ~r.io
    \/ Len(r.toks) # 5
    \/ \E i \in 1..Len(r.toks) : ~r.toks[i].num

\* The worker's step that decides the reply of the tick under way.
ParseStep == daq_pc = "parse" /\ daq_pc' # "parse"

\* The worker's step that completes a successful tick.
TickDone == daq_pc = "log_write" /\ daq_pc' = "wait"

\* The worker's step that starts a tick: it issues the query.
QueryStep == daq_pc = "wait" /\ daq_pc' = "parse"

\* C1: a tick whose reply is malformed or failed (no success, a wrong field
\* count, a token that is no number) ends at once, leaves all five Reading
\* fields as they were and adds exactly 1 to the failure tally.
C1_FailedTickKeepsReading ==
    [][(ParseStep /\ Malformed(resp))
         => (daq_pc' = "wait" /\ state' = state /\ not_alive' = not_alive + 1)]_vars

\* C1 witness: a tick with a non-numeric token has failed after a good one.
C1_Witness ==
    /\ daq_pc = "wait"
    /\ resp = JunkMiddle
    /\ not_alive = 1
    /\ ~IsNaN(state.time)

\* The five values of a well-formed reply after the unit conversions the
\* claim C2 names: time_ms / 1000 and pressure / 1e5.
Converted(r) ==
    [time     |-> RatDiv(r.toks[1].val, 1000),
     ds_temp  |-> r.toks[2].val,
     bme_temp |-> r.toks[3].val,
     bme_humi |-> r.toks[4].val,
     bme_pres |-> RatDiv(r.toks[5].val, 100000)]

\* C2 as stated: after a tick with a valid reply the Reading is the reply
\* after unit conversion, its time being time_ms / 1000.
C2_Original ==
    [][TickDone => state' = Converted(resp)]_vars

\* C2 amended: after a tick with a valid reply, ds_temp, bme_temp and
\* bme_humi are the reported values, bme_pres is the reported pressure / 1e5,
\* and time is the PC clock (time.perf_counter()) read in that tick, not the
\* reported time / 1000.
C2_ReadingMatchesReply ==
    [][TickDone
         => /\ ~Malformed(resp)
            /\ state' = [Converted(resp) EXCEPT !.time = Num(clock)]
            /\ clock' = clock]_vars

\* C2 witness: the second valid reply has been taken over.
C2_Witness ==
    /\ daq_pc = "wait"
    /\ not_alive = 0
    /\ resp = Valid2
    /\ state.bme_pres = Rat(101326, 100000)
    /\ state.ds_temp = Rat(201, 10)
    /\ state.time = Num(2)

\* C4: the run of consecutive failed ticks is counted (a successful tick
\* resets it); when it reaches 3 the worker stops, issues no further query,
\* and signal_connection_lost is emitted, once; below 3 the signal is not
\* emitted and the worker keeps polling unless the application stops it.
C4_ConnectionLost ==
    /\ [](/\ not_alive <= 3
          /\ lost_count <= 1
          /\ (lost_count = 1) <=> (not_alive = 3)
          /\ (lost_count = 1) => (~running /\ daq_pc = "wait")
          /\ (lost_count = 0 /\ ui_slot = "none") => running)
    /\ [][/\ QueryStep => (lost_count = 0 /\ not_alive < 3)
          /\ TickDone => not_alive' = 0
          /\ (ParseStep /\ Malformed(resp)) => not_alive' = not_alive + 1
          /\ (lost_count' # lost_count)
               => (ParseStep /\ Malformed(resp) /\ not_alive = 2 /\ lost_pending')]_vars

\* C4 witness: the connection was lost after at least one good tick.
C4_Witness ==
    /\ lost_count = 1
    /\ not_alive = 3
    /\ ~running
    /\ clock >= 1

\* C3: the five Reading fields change as a group: what update_GUI shows
\* when it returns is a Reading that some completed poll (or the
\* construction) left, never a mixture of two polls nor an intermediate
\* value of a field.
C3_ReadingShownWhole ==
    ui_pc = "loop" => shown \in {Display(r) : r \in committed}

\* The worker's step at `if file_logger.starting:`.
LogStartStep == daq_pc = "log_start" /\ daq_pc' = "log_stop"

\* The worker's step at `if file_logger.stopping:`.
LogStopStep == daq_pc = "log_stop" /\ daq_pc' = "log_write"

\* The main thread's close_log() in stop_running.
UiCloseStep ==
    \/ ui_pc = "close_log" /\ ui_pc' = "timer_stop"
    \/ ui_pc = "events" /\ ui_pc' = "quit_daq" /\ lost_pending

\* C5: a tick that observes `starting` while the logger is recording
\* opens no second file, leaves the open file open with all its lines and no
\* new one, keeps the session start time, and consumes the flag.
C5_DoubleStartNoOp ==
    [][(LogStartStep /\ file_logger.starting /\ file_logger.is_recording)
         => /\ f_log' = f_log
            /\ f_log.open
            /\ file_logger'.start_time = file_logger.start_time
            /\ file_logger'.is_recording
            /\ ~file_logger'.starting]_vars

\* C5 witness: recording, the button was clicked off and on again, and the
\* tick under way has consumed `starting` with the first file still open.
C5_Witness ==
    /\ daq_pc = "log_stop"
    /\ file_logger.is_recording
    /\ file_logger.stopping
    /\ ~file_logger.starting
    /\ checked
    /\ f_log.opened = 1
    /\ Len(f_log.lines) >= 2
    /\ file_logger.start_time = Num(1)
    /\ clock = 2

\* C6: close_log() with no file open, be it the tick's at `stopping` or
\* stop_running's, does nothing to the file (no error, no write, no close)
\* and leaves the logger idle with both flags cleared.
C6_StopWhileIdleNoOp ==
    /\ [](file_logger.is_recording <=> f_log.open)
    /\ [][((LogStopStep /\ file_logger.stopping) \/ UiCloseStep)
            /\ ~file_logger.is_recording
          => /\ f_log' = f_log
             /\ ~file_logger'.is_recording
             /\ ~file_logger'.starting
             /\ ~file_logger'.stopping
             /\ file_logger'.start_time = file_logger.start_time]_vars

\* C6 witness: the application quits after a connection loss that closed a
\* log file; the second stop_running has called close_log() again.
C6_Witness ==
    /\ ui_slot = "quit"
    /\ ui_pc = "timer_stop"
    /\ banner
    /\ lost_count = 1
    /\ f_log.closes
    /\ ~f_log.open

\* The elapsed-time column of a data line, in tenths of a second.
Elapsed(line) == line.cols[1].units

\* C7: the log file is the header line followed by data lines only; while
\* the logger records, every successful tick appends exactly one line, made
\* of that tick's Reading with the time elapsed since the session start, so
\* between ticks an open file holds one line per successful tick since the
\* one that created it, in tick order, the first at elapsed time 0; a
\* failed tick appends nothing.
C7_OneLinePerTick ==
    /\ [](/\ f_log.lines # <<>> => f_log.lines[1] = HeaderLine
          /\ \A i \in 2..Len(f_log.lines) : f_log.lines[i].kind = "data"
          /\ Len(f_log.lines) >= 2 => f_log.lines[2].cols[1] = Fmt(Num(0), 1)
          /\ \A i \in 3..Len(f_log.lines) :
                Elapsed(f_log.lines[i]) = Elapsed(f_log.lines[i - 1]) + 10
          /\ (daq_pc = "wait" /\ file_logger.is_recording)
                => /\ Len(f_log.lines) - 1 = clock - file_logger.start_time.n + 1
                   /\ f_log.lines[Len(f_log.lines)]
                        = DataLine(RatSub(state.time, file_logger.start_time), state)
          /\ ~f_log.bad_writes)
    /\ [][/\ (TickDone /\ file_logger.is_recording)
               => f_log' = [f_log EXCEPT !.lines =
                     Append(@, DataLine(RatSub(state.time, file_logger.start_time), state))]
          /\ (TickDone /\ ~file_logger.is_recording) => f_log' = f_log
          /\ (ParseStep /\ Malformed(resp)) => f_log' = f_log]_vars

\* C7 witness: a session begun at the second successful tick holds its
\* header and two data lines.
C7_Witness ==
    /\ daq_pc = "wait"
    /\ file_logger.is_recording
    /\ Len(f_log.lines) = 3
    /\ file_logger.start_time = Num(2)
    /\ f_log.lines[3] = DataLine(Num(1), Converted(Valid2))
    /\ not_alive = 0

\* A step that ends a tick, failed or successful.
TickEnd == daq_pc # "wait" /\ daq_pc' = "wait"

\* A click on the record button.
ClickStep == checked' # checked

\* C9 as stated: a flag that a click set before a tick started is consumed
\* by that tick, whether its query fails or not: when the tick ends the
\* flag is clear (unless a click has toggled the button meanwhile).
C9_Original ==
    [][(TickEnd /\ checked' = checked)
         => /\ (tick_saw.starting /\ checked) => ~file_logger'.starting
            /\ (tick_saw.stopping /\ ~checked) => ~file_logger'.stopping]_vars

\* C9 amended: a failed tick consumes nothing: it leaves the logger and its
\* flags as they are.  A flag set before a tick starts is still set when a
\* successful tick reaches its check, and that check consumes it: at
\* `starting` the flag is cleared and the logger records afterwards (a new
\* file with its header and the Reading's time as start time, if it was
\* idle); at `stopping` the flag is cleared and the logger is idle with the
\* file closed afterwards.  Flags are set by clicks only and cleared by
\* these checks and by stop_running's close_log() only; files are opened
\* only at a `starting` check and closed only at a `stopping` check or by
\* stop_running.
C9_FlagsConsumedBySuccessfulTick ==
    [][/\ (ParseStep /\ Malformed(resp)) => (file_logger' = file_logger /\ f_log' = f_log)
       /\ (LogStartStep /\ tick_saw.starting) => file_logger.starting
       /\ (LogStopStep /\ tick_saw.stopping) => file_logger.stopping
       /\ (LogStartStep /\ file_logger.starting)
            => /\ ~file_logger'.starting
               /\ file_logger'.is_recording
               /\ f_log'.open
               /\ ~file_logger.is_recording
                    => /\ f_log'.opened = f_log.opened + 1
                       /\ f_log'.lines = <<HeaderLine>>
                       /\ file_logger'.start_time = state.time
       /\ (LogStopStep /\ file_logger.stopping)
            => /\ ~file_logger'.stopping
               /\ ~file_logger'.is_recording
               /\ ~f_log'.open
       /\ (LogStartStep /\ ~file_logger.starting)
            => (file_logger' = file_logger /\ f_log' = f_log)
       /\ (LogStopStep /\ ~file_logger.stopping)
            => (file_logger' = file_logger /\ f_log' = f_log)
       /\ (~file_logger.starting /\ file_logger'.starting) => (ClickStep /\ checked')
       /\ (~file_logger.stopping /\ file_logger'.stopping) => (ClickStep /\ ~checked')
       /\ (file_logger.starting /\ ~file_logger'.starting)
            => (LogStartStep \/ (LogStopStep /\ file_logger.stopping) \/ UiCloseStep)
       /\ (file_logger.stopping /\ ~file_logger'.stopping)
            => ((LogStopStep /\ file_logger.stopping) \/ UiCloseStep)
       /\ (f_log'.opened # f_log.opened) => (LogStartStep /\ file_logger.starting)
       /\ (f_log.open /\ ~f_log'.open)
            => ((LogStopStep /\ file_logger.stopping) \/ UiCloseStep)]_vars

\* C9 witness: both flags were set before a tick that followed a failed
\* one; the tick has created the file and is about to close it.
C9_Witness ==
    /\ daq_pc = "log_stop"
    /\ not_alive = 1
    /\ tick_saw.starting
    /\ tick_saw.stopping
    /\ ~file_logger.starting
    /\ file_logger.stopping
    /\ file_logger.is_recording
    /\ f_log.lines = <<HeaderLine>>

\* The main thread is in about_to_quit at or past the given point of
\* stop_running.
QuitPast(points) == ui_slot = "quit" /\ ui_pc \in points

\* C10: about_to_quit stops the acquisition task, then closes the log file,
\* then stops the chart timer, then closes the device link; once the task
\* is told to stop no tick starts (the one under way completes before the
\* log is closed), the file is not written after its close, and the link
\* is never queried closed.
C10_TeardownOrder ==
    /\ [](/\ QuitPast({"join", "close_log", "timer_stop", "stopped", "exited"}) => ~running
          /\ QuitPast({"close_log", "timer_stop", "stopped", "exited"}) => daq_pc = "wait"
          /\ QuitPast({"timer_stop", "stopped", "exited"})
               => (~f_log.open /\ ~file_logger.is_recording)
          /\ QuitPast({"stopped", "exited"}) => ~timer_chart
          /\ ~ard_open <=> ui_pc = "exited"
          /\ ~f_log.bad_writes)
    /\ [][/\ QueryStep => (running /\ ard_open)
          /\ ~running => ~QueryStep
          /\ UiCloseStep => (~running /\ daq_pc = "wait" /\ ard_open)
          /\ (timer_chart # timer_chart') => (~running /\ ~f_log'.open /\ ard_open)
          /\ (ard_open # ard_open') => (~running /\ ~f_log.open /\ ~timer_chart)
          /\ QuitPast({"timer_stop", "stopped", "exited"}) => f_log' = f_log]_vars

\* C10 witness: the application has quit while recording; the teardown
\* closed the file (the button still reads recording).
C10_Witness ==
    /\ ui_pc = "exited"
    /\ ~ard_open
    /\ ~banner
    /\ btn_text = "recording"
    /\ f_log.closes
    /\ Len(f_log.lines) >= 2

\* The worker's step that adds the Reading to one curve.
ChartStep == daq_pc = "charts" /\ daq_i' # daq_i

\* C8: no chart buffer ever holds more than 60 samples; a buffer changes
\* only by being cleared or by taking the newest sample at its end, and
\* once it holds 60 the sample at its front is dropped for it; every
\* successful tick's sample is in its buffer afterwards.
C8_ChartCapacity ==
    /\ [](\A c \in CurveNames : Len(curves[c]) <= 60)
    /\ [][/\ \A c \in CurveNames :
                curves'[c] # curves[c]
                  => \/ curves'[c] = <<>>
                     \/ /\ Len(curves[c]) < 60
                        /\ curves'[c] = Append(curves[c], <<state.time, state[c]>>)
                     \/ /\ Len(curves[c]) = 60
                        /\ curves'[c] = Append(Tail(curves[c]), <<state.time, state[c]>>)
          /\ ChartStep
               => LET c == CurveOrder[daq_i]
                  IN  /\ curves'[c] # <<>>
                      /\ curves'[c][Len(curves'[c])] = <<state.time, state[c]>>
                      /\ \A o \in CurveNames \ {c} : curves'[o] = curves[o]]_vars

\* C8 witness: the 61st sample is in a full buffer and the first is gone.
C8_Witness ==
    /\ Len(curves["bme_pres"]) = 60
    /\ curves["bme_pres"][1][1] = Num(2)
    /\ curves["bme_pres"][60][1] = Num(61)

\* A step of the acquisition worker: every step of a tick moves its position.
WorkerStep == <<daq_pc, daq_i>>' # <<daq_pc, daq_i>>

\* The logger's fields change by a latch flag being set, and not otherwise.
OnlyFlagsSet ==
    /\ file_logger'.is_recording = file_logger.is_recording
    /\ file_logger'.start_time = file_logger.start_time
    /\ file_logger.starting => file_logger'.starting
    /\ file_logger.stopping => file_logger'.stopping

\* C11 as stated: every operation on the log file (open, write, close) is
\* the acquisition worker's; no step of the main thread opens, writes or
\* closes the file, through clicks, connection loss and quitting alike.
C11_Original ==
    [][~WorkerStep => f_log' = f_log]_vars

\* C11 amended: the file is opened and written by the acquisition worker
\* only (at its `starting` check and at the end of a successful tick), and a
\* click only sets one latch flag.  The file is closed by the worker at its
\* `stopping` check, or by the main thread: stop_running, on connection loss
\* and on quitting, calls close_log() itself, after the worker has been
\* stopped and with no tick under way, so never while the worker uses the
\* file; that call closes the file, writes nothing and clears the flags.
\* Every other step of the main thread leaves the file and the logger alone
\* but for setting a flag.
C11_FileOwnedByWorkerUntilStopped ==
    [][/\ (f_log'.opened # f_log.opened) => (WorkerStep /\ LogStartStep)
       /\ (f_log'.lines # f_log.lines) => (WorkerStep /\ (LogStartStep \/ TickDone))
       /\ (f_log.open /\ ~f_log'.open)
            => \/ WorkerStep /\ LogStopStep
               \/ ~WorkerStep /\ UiCloseStep
       /\ ClickStep
            => /\ f_log' = f_log
               /\ file_logger' \in {[file_logger EXCEPT !.starting = TRUE],
                                    [file_logger EXCEPT !.stopping = TRUE]}
       /\ (~WorkerStep /\ ~UiCloseStep) => (f_log' = f_log /\ OnlyFlagsSet)
       /\ UiCloseStep
            => /\ ~WorkerStep
               /\ ~running
               /\ daq_pc = "wait"
               /\ ui_slot \in {"notify", "quit"}
               /\ f_log' = [f_log EXCEPT !.open = FALSE,
                                         !.closes = (@ \/ f_log.open)]
               /\ file_logger' = [file_logger EXCEPT !.starting = FALSE,
                                                     !.stopping = FALSE,
                                                     !.is_recording = FALSE]]_vars

\* C11 witness: the connection was lost while recording, and the main
\* thread's stop_running has closed the file the worker opened and wrote.
C11_Witness ==
    /\ ui_slot = "notify"
    /\ ui_pc = "timer_stop"
    /\ lost_count = 1
    /\ ~running
    /\ btn_text = "recording"
    /\ f_log.closes
    /\ ~f_log.open
    /\ Len(f_log.lines) >= 2

====
